---- MODULE Spec2Model ----
(***************************************************************************)
(* Model of go-binpack (src/pack.go): Pack arranges the rectangles of a    *)
(* Packable into a layout, largest area first, and hands every position    *)
(* back through Place.  The caller (src/unnamed/part_000, testPackable)    *)
(* owns the rectangles and the recorded placements.                        *)
(*                                                                         *)
(* Indices are the Go indices 0..n-1; a Go slice s is the sequence whose   *)
(* element k+1 is s[k].                                                    *)
(***************************************************************************)
EXTENDS Integers, Sequences, FiniteSets

\* Largest number of rectangles in the caller's collection.
MaxRects == 3
\* Largest width or height of a rectangle.
MaxDim == 1

\* math.MaxInt64, the initial bestArea / bestCenterDistance, narrowed to the
\* model checker's integer width; every area and distance within the bounds
\* is far below it.
MaxInt64 == 2147483647

VARIABLES
    rectangles,     \* testPackable.rectangles: the caller's Rectangle values
    locations,      \* testPackable.placements: the (x, y) recorded through Place
    calls,          \* the Place calls of the current run, <<n, x, y>>, in order
    pc,             \* position inside Pack: "call", "loop", "place", "done"
    positions,      \* Pack: the sorted index slice
    next,           \* Pack: number of positions the placement loop has handled
    placements,     \* Pack: the working placement list
    candidateFound, \* Pack: the found result of the last findBestPlacement
    fallback,       \* TRUE once the !candidateFound branch has been executed
    final,          \* Pack: the bounds computed after the placement loop
    written,        \* Pack: number of placements the write-back loop has handled
    read,           \* indices whose Rectangle was read by the last step
    ret,            \* the returned <<width, height>>, << >> before the return
    hasPrev,        \* TRUE when an earlier run of Pack has been kept
    prevRectangles, \* the collection of the earlier run
    prevLocations,  \* the placements the earlier run recorded
    prevRet         \* the pair the earlier run returned

vars == <<rectangles, locations, calls, pc, positions, next, placements,
          candidateFound, fallback, final, written, read, ret,
          hasPrev, prevRectangles, prevLocations, prevRet>>

prev == <<hasPrev, prevRectangles, prevLocations, prevRet>>

----------------------------------------------------------------------------
\* Types

\* Rectangle{Width, Height}
Rect(w, h) == [Width |-> w, Height |-> h]

\* Rectangle.Area
Area(r) == r.Width * r.Height

\* placement{position, x, y, width, height}
Placement(p, x, y, w, h) == [position |-> p, x |-> x, y |-> y, width |-> w, height |-> h]

\* bounds{minX, minY, maxX, maxY}
Bounds(x0, y0, x1, y1) == [minX |-> x0, minY |-> y0, maxX |-> x1, maxY |-> y1]

\* testPackable.Len
PLen(p) == Len(p)

\* testPackable.Rectangle(n)
Rectangle(p, n) == p[n + 1]

\* Go's integer division by two (truncates toward zero).
Half(v) == IF v >= 0 THEN v \div 2 ELSE -((-v) \div 2)

----------------------------------------------------------------------------
\* Sorting the positions (sort.Slice, insertion sort for slices this short)

\* Less with the comparison turned around (smaller area first).
Less_ascending(p, s, i, j) == Area(Rectangle(p, s[i + 1])) < Area(Rectangle(p, s[j + 1]))

\* The less function handed to sort.Slice: strictly larger area first.
Less(p, s, i, j) == Area(Rectangle(p, s[i + 1])) > Area(Rectangle(p, s[j + 1]))

Swap(s, i, j) == [s EXCEPT ![i + 1] = s[j + 1], ![j + 1] = s[i + 1]]

RECURSIVE SiftDown(_, _, _)
\* inner loop of the insertion sort: for j := i; j > 0 && less(j, j-1); j--
SiftDown(p, s, j) ==
    IF j > 0 /\ Less(p, s, j, j - 1)
    THEN SiftDown(p, Swap(s, j, j - 1), j - 1)
    ELSE s

RECURSIVE InsertionSort(_, _, _)
\* outer loop of the insertion sort: for i := 1; i < n; i++
InsertionSort(p, s, i) ==
    IF i < Len(s) THEN InsertionSort(p, SiftDown(p, s, i), i + 1) ELSE s

\* SortPositions without the loop that fills positions[i] = i.
SortPositions_unset(p) == [k \in 1..Len(p) |-> 0]

\* positions[i] = i for every i, then sort.Slice(positions, less)
SortPositions(p) == InsertionSort(p, [k \in 1..PLen(p) |-> k - 1], 1)

----------------------------------------------------------------------------
\* Geometry helpers

\* expandBoundsForPlacement
expandBoundsForPlacement(r, b) ==
    Bounds(IF r.x < b.minX THEN r.x ELSE b.minX,
           IF r.y < b.minY THEN r.y ELSE b.minY,
           IF r.x + r.width > b.maxX THEN r.x + r.width ELSE b.maxX,
           IF r.y + r.height > b.maxY THEN r.y + r.height ELSE b.maxY)

RECURSIVE computeBoundsFrom(_, _, _)
\* the loop of computeBounds over placements[k..]
computeBoundsFrom(ps, k, b) ==
    IF k > Len(ps) THEN b
    ELSE LET r == ps[k] IN
         computeBoundsFrom(ps, k + 1,
            Bounds(IF r.x < b.minX THEN r.x ELSE b.minX,
                   IF r.y < b.minY THEN r.y ELSE b.minY,
                   IF r.x + r.width > b.maxX THEN r.x + r.width ELSE b.maxX,
                   IF r.y + r.height > b.maxY THEN r.y + r.height ELSE b.maxY))

\* computeBounds without the loop over the placements.
computeBounds_noLoop(ps) ==
    Bounds(ps[1].x, ps[1].y, ps[1].x + ps[1].width, ps[1].y + ps[1].height)

\* computeBounds: start from placements[0], then widen over all placements
computeBounds(ps) ==
    computeBoundsFrom(ps, 1,
        Bounds(ps[1].x, ps[1].y, ps[1].x + ps[1].width, ps[1].y + ps[1].height))

\* doRectanglesIntersect with > for >=: touching edges count as intersecting.
doRectanglesIntersect_closed(a, b) ==
    IF a.x > b.x + b.width \/ b.x > a.x + a.width THEN FALSE
    ELSE IF a.y > b.y + b.height \/ b.y > a.y + a.height THEN FALSE
    ELSE TRUE

\* doRectanglesIntersect
doRectanglesIntersect(a, b) ==
    IF a.x >= b.x + b.width \/ b.x >= a.x + a.width THEN FALSE
    ELSE IF a.y >= b.y + b.height \/ b.y >= a.y + a.height THEN FALSE
    ELSE TRUE

\* hasIntersection returning from inside the loop on its first element.
hasIntersection_firstOnly(candidate, ps) ==
    Len(ps) > 0 /\ doRectanglesIntersect(candidate, ps[1])

\* hasIntersection
hasIntersection(candidate, ps) ==
    \E k \in 1..Len(ps) : doRectanglesIntersect(candidate, ps[k])

----------------------------------------------------------------------------
\* Candidate coordinates (getCandidatePositions)

SeqRange(s) == {s[k] : k \in 1..Len(s)}

\* m[k] = true on a map whose keys, in slot order, are s
MapInsert(s, k) == IF k \in SeqRange(s) THEN s ELSE Append(s, k)

RECURSIVE xKeys(_, _, _)
\* the keys of the map x after the first loop of getCandidatePositions
xKeys(rs, k, s) ==
    IF k > Len(rs) THEN s
    ELSE xKeys(rs, k + 1, MapInsert(MapInsert(s, rs[k].x), rs[k].x + rs[k].width))

RECURSIVE yKeys(_, _, _)
\* the keys of the map y after the first loop of getCandidatePositions
yKeys(rs, k, s) ==
    IF k > Len(rs) THEN s
    ELSE yKeys(rs, k + 1, MapInsert(MapInsert(s, rs[k].y), rs[k].y + rs[k].height))

\* `for k := range m`: Go starts the iteration of a map at a random slot and
\* wraps around, so a map of at most eight keys is enumerated in one of the
\* rotations of its slot order; off is the random start.
MapRange(s, off) ==
    [k \in 1..Len(s) |-> s[((k - 1 + off) % Len(s)) + 1]]

\* the start offsets the runtime can draw for a map with keys s
Offsets(s) == 0..(Len(s) - 1)

\* getCandidatePositions, with the start offsets of its two map iterations
getCandidatePositions(rs, offX, offY) ==
    <<MapRange(xKeys(rs, 1, << >>), offX), MapRange(yKeys(rs, 1, << >>), offY)>>

----------------------------------------------------------------------------
\* findBestPlacement

\* the heuristic state: bestX, bestY, bestArea, bestCenterDistance, found
NoBest == [bestX |-> 0, bestY |-> 0, bestArea |-> MaxInt64,
           bestCenterDistance |-> MaxInt64, found |-> FALSE]

\* Evaluate without the center-distance tie-break.
Evaluate_areaOnly(best, candidateX, candidateY, b, r, ps) ==
    LET candidate == Placement(0, candidateX, candidateY, r.Width, r.Height) IN
    IF hasIntersection(candidate, ps) THEN best
    ELSE
      LET candidateBB == expandBoundsForPlacement(candidate, b)
          candidateArea == (candidateBB.maxX - candidateBB.minX) * (candidateBB.maxY - candidateBB.minY)
      IN IF candidateArea < best.bestArea
         THEN [bestX |-> candidate.x, bestY |-> candidate.y, bestArea |-> candidateArea,
               bestCenterDistance |-> 0, found |-> TRUE]
         ELSE best

\* body of the inner loop for one (candidateX, candidateY)
Evaluate(best, candidateX, candidateY, b, r, ps) ==
    LET candidate == Placement(0, candidateX, candidateY, r.Width, r.Height) IN
    IF hasIntersection(candidate, ps) THEN best
    ELSE
      LET candidateBB == expandBoundsForPlacement(candidate, b)
          candidateArea == (candidateBB.maxX - candidateBB.minX) * (candidateBB.maxY - candidateBB.minY)
          bbCenterX == candidateBB.minX + Half(candidateBB.maxX - candidateBB.minX)
          bbCenterY == candidateBB.minY + Half(candidateBB.maxY - candidateBB.minY)
          candidateCenterX == candidate.x + Half(candidate.width)
          candidateCenterY == candidate.y + Half(candidate.height)
          dx == candidateCenterX - bbCenterX
          dy == candidateCenterY - bbCenterY
          centerDistance == dx * dx + dy * dy
      IN IF candidateArea < best.bestArea
            \/ (candidateArea = best.bestArea /\ centerDistance < best.bestCenterDistance)
         THEN [bestX |-> candidate.x, bestY |-> candidate.y, bestArea |-> candidateArea,
               bestCenterDistance |-> centerDistance, found |-> TRUE]
         ELSE best

RECURSIVE InnerLoop(_, _, _, _, _, _, _)
\* for _, candidateY := range yCandidates
InnerLoop(best, candidateX, yCandidates, j, b, r, ps) ==
    IF j > Len(yCandidates) THEN best
    ELSE InnerLoop(Evaluate(best, candidateX, yCandidates[j], b, r, ps),
                   candidateX, yCandidates, j + 1, b, r, ps)

RECURSIVE OuterLoop(_, _, _, _, _, _, _)
\* for _, candidateX := range xCandidates
OuterLoop(best, xCandidates, i, yCandidates, b, r, ps) ==
    IF i > Len(xCandidates) THEN best
    ELSE OuterLoop(InnerLoop(best, xCandidates[i], yCandidates, 1, b, r, ps),
                   xCandidates, i + 1, yCandidates, b, r, ps)

\* findBestPlacement: (bestX, bestY, found) are the fields of the result
findBestPlacement(xCandidates, yCandidates, b, r, ps) ==
    OuterLoop(NoBest, xCandidates, 1, yCandidates, b, r, ps)

----------------------------------------------------------------------------
\* The caller's collection

Shapes == {Rect(w, h) : w \in 0..MaxDim, h \in 0..MaxDim}

Inputs == UNION {[1..n -> Shapes] : n \in 0..MaxRects}

\* newTestPackable: placements is a zeroed slice as long as the rectangles
ZeroLocations(p) == [k \in 1..Len(p) |-> <<0, 0>>]

\* the ways a caller can re-label a collection of n rectangles: index k of the
\* re-labelled collection holds the rectangle that had index f[k+1]-1
Relabelings(n) == {f \in [1..n -> 1..n] : \A a, b \in 1..n : f[a] = f[b] => a = b}

Relabel(p, f) == [k \in 1..Len(p) |-> p[f[k]]]

ZeroBounds == Bounds(0, 0, 0, 0)

Init ==
    /\ rectangles \in Inputs
    /\ locations = ZeroLocations(rectangles)
    /\ calls = << >>
    /\ pc = "call"
    /\ positions = << >>
    /\ next = 0
    /\ placements = << >>
    /\ candidateFound = FALSE
    /\ fallback = FALSE
    /\ final = ZeroBounds
    /\ written = 0
    /\ read = {}
    /\ ret = << >>
    /\ hasPrev = FALSE
    /\ prevRectangles = << >>
    /\ prevLocations = << >>
    /\ prevRet = << >>

----------------------------------------------------------------------------
\* Pack

\* Pack on an empty collection: return 0, 0
PackEmpty ==
    /\ pc = "call"
    /\ PLen(rectangles) = 0
    /\ ret' = <<0, 0>>
    /\ pc' = "done"
    /\ read' = {}
    /\ UNCHANGED <<rectangles, locations, calls, positions, next, placements,
                   candidateFound, fallback, final, written>>
    /\ UNCHANGED prev

\* Pack up to the placement loop: build and sort the positions
PackSort ==
    /\ pc = "call"
    /\ PLen(rectangles) # 0
    /\ positions' = SortPositions(rectangles)
    /\ read' = IF PLen(rectangles) > 1 THEN 0..(PLen(rectangles) - 1) ELSE {}
    /\ pc' = "loop"
    /\ UNCHANGED <<rectangles, locations, calls, next, placements,
                   candidateFound, fallback, final, written, ret>>
    /\ UNCHANGED prev

\* AfterSeed with `break` for `continue`: the loop ends after the seed.
AfterSeed_break(nx, n) == n

\* the loop index after the first iteration: `continue` goes on with the next
\* of the n positions
AfterSeed(nx, n) == nx + 1

\* the placement loop, first iteration: len(placements) == 0
PlaceFirst ==
    /\ pc = "loop"
    /\ next < Len(positions)
    /\ Len(placements) = 0
    /\ LET position == positions[next + 1]
           rectangle == Rectangle(rectangles, position)
       IN /\ placements' = Append(placements,
                 Placement(position, 0, 0, rectangle.Width, rectangle.Height))
          /\ read' = {position}
    /\ next' = AfterSeed(next, Len(positions))
    /\ UNCHANGED <<rectangles, locations, calls, pc, positions,
                   candidateFound, fallback, final, written, ret>>
    /\ UNCHANGED prev

\* the position Pack appends for rectangle over the placed ps, with the start
\* offsets of the two map iterations
ChoosePosition(rectangle, ps, offX, offY) ==
    LET cands == getCandidatePositions(ps, offX, offY)
        bounds == computeBounds(ps)
        best == findBestPlacement(cands[1], cands[2], bounds, rectangle, ps)
    IN [bestX |-> IF ~best.found THEN bounds.maxX ELSE best.bestX,
        bestY |-> IF ~best.found THEN bounds.minY ELSE best.bestY,
        found |-> best.found]

\* the placement loop, a later iteration
PlaceNext ==
    /\ pc = "loop"
    /\ next < Len(positions)
    /\ Len(placements) # 0
    /\ LET position == positions[next + 1]
           rectangle == Rectangle(rectangles, position)
       IN \E offX \in Offsets(xKeys(placements, 1, << >>)),
             offY \in Offsets(yKeys(placements, 1, << >>)) :
            LET c == ChoosePosition(rectangle, placements, offX, offY) IN
            /\ candidateFound' = c.found
            /\ fallback' = (fallback \/ ~c.found)
            /\ placements' = Append(placements,
                   Placement(position, c.bestX, c.bestY, rectangle.Width, rectangle.Height))
            /\ read' = {position}
    /\ next' = next + 1
    /\ UNCHANGED <<rectangles, locations, calls, pc, positions, final, written, ret>>
    /\ UNCHANGED prev

\* after the placement loop: the bounds of the whole layout
FinalBounds ==
    /\ pc = "loop"
    /\ next = Len(positions)
    /\ final' = computeBounds(placements)
    /\ pc' = "place"
    /\ read' = {}
    /\ UNCHANGED <<rectangles, locations, calls, positions, next, placements,
                   candidateFound, fallback, written, ret>>
    /\ UNCHANGED prev

\* PlaceArgs shifting by the far corner of the bounds.
PlaceArgs_maxShift(pl, b) == <<pl.position, pl.x - b.maxX, pl.y - b.maxY>>

\* the arguments of p.Place for placement pl under the final bounds b
PlaceArgs(pl, b) == <<pl.position, pl.x - b.minX, pl.y - b.minY>>

\* testPackable.Place(n, x, y)
Place(locs, n, x, y) == [locs EXCEPT ![n + 1] = <<x, y>>]

\* the write-back loop, one iteration: p.Place(...)
PlaceCall ==
    /\ pc = "place"
    /\ written < Len(placements)
    /\ LET a == PlaceArgs(placements[written + 1], final) IN
          /\ calls' = Append(calls, a)
          /\ locations' = Place(locations, a[1], a[2], a[3])
    /\ written' = written + 1
    /\ read' = {}
    /\ UNCHANGED <<rectangles, pc, positions, next, placements,
                   candidateFound, fallback, final, ret>>
    /\ UNCHANGED prev

\* the pair Pack returns under the final bounds b
Dimensions(b) == <<b.maxX - b.minX, b.maxY - b.minY>>

\* return the overall dimensions
Return ==
    /\ pc = "place"
    /\ written = Len(placements)
    /\ ret' = Dimensions(final)
    /\ pc' = "done"
    /\ read' = {}
    /\ UNCHANGED <<rectangles, locations, calls, positions, next, placements,
                   candidateFound, fallback, final, written>>
    /\ UNCHANGED prev

\* The caller keeps the outcome of the finished run, re-labels the collection
\* (or leaves it as it is) and calls Pack once more on a fresh Packable.
Repack ==
    /\ pc = "done"
    /\ ~hasPrev
    /\ \E f \in Relabelings(Len(rectangles)) : rectangles' = Relabel(rectangles, f)
    /\ hasPrev' = TRUE
    /\ prevRectangles' = rectangles
    /\ prevLocations' = locations
    /\ prevRet' = ret
    /\ locations' = ZeroLocations(rectangles)
    /\ calls' = << >>
    /\ pc' = "call"
    /\ positions' = << >>
    /\ next' = 0
    /\ placements' = << >>
    /\ candidateFound' = FALSE
    /\ fallback' = FALSE
    /\ final' = ZeroBounds
    /\ written' = 0
    /\ read' = {}
    /\ ret' = << >>

\* One run of Pack on every collection within the bounds.
Next ==
    \/ PackEmpty
    \/ PackSort
    \/ PlaceFirst
    \/ PlaceNext
    \/ FinalBounds
    \/ PlaceCall
    \/ Return

Spec == Init /\ [][Next]_vars

\* A run of Pack followed by a second run on the same or the re-labelled
\* collection.
NextRepack ==
    \/ PackEmpty
    \/ PackSort
    \/ PlaceFirst
    \/ PlaceNext
    \/ FinalBounds
    \/ PlaceCall
    \/ Return
    \/ Repack

SpecRepack == Init /\ [][NextRepack]_vars

----------------------------------------------------------------------------
\* Vocabulary of the properties

SetMax(S) == CHOOSE m \in S : \A v \in S : v <= m
SetMin(S) == CHOOSE m \in S : \A v \in S : m <= v

Indices == 0..(Len(rectangles) - 1)

\* the half-open overlap test on (x, y, w, h): touching edges do not overlap
Overlap(x1, y1, w1, h1, x2, y2, w2, h2) ==
    /\ x1 < x2 + w2 /\ x2 < x1 + w1
    /\ y1 < y2 + h2 /\ y2 < y1 + h1

\* the cells two rectangles share, as sets of integer points
SharedCells(x1, y1, w1, h1, x2, y2, w2, h2) ==
    ((x1..(x1 + w1 - 1)) \cap (x2..(x2 + w2 - 1))) \X
    ((y1..(y1 + h1 - 1)) \cap (y2..(y2 + h2 - 1)))

PlacedOverlap(a, b) ==
    \/ Overlap(a.x, a.y, a.width, a.height, b.x, b.y, b.width, b.height)
    \/ SharedCells(a.x, a.y, a.width, a.height, b.x, b.y, b.width, b.height) # {}

\* x and y recorded for index i, and the rectangle of index i
LocX(i) == locations[i + 1][1]
LocY(i) == locations[i + 1][2]
Dim(i) == rectangles[i + 1]

RecordedOverlap(i, j) ==
    \/ Overlap(LocX(i), LocY(i), Dim(i).Width, Dim(i).Height,
               LocX(j), LocY(j), Dim(j).Width, Dim(j).Height)
    \/ SharedCells(LocX(i), LocY(i), Dim(i).Width, Dim(i).Height,
                   LocX(j), LocY(j), Dim(j).Width, Dim(j).Height) # {}

----------------------------------------------------------------------------
\* C1: no two placed rectangles overlap (half-open test): in the working
\* placement list after every step of the placement loop, and in the positions
\* recorded through Place for every two distinct indices once Pack returned.
NoOverlap ==
    /\ \A a, b \in 1..Len(placements) :
          a # b => ~PlacedOverlap(placements[a], placements[b])
    /\ pc = "done" =>
          \A i, j \in Indices : i # j => ~RecordedOverlap(i, j)

\* three rectangles of positive area have been packed and recorded
NoOverlapWitness ==
    /\ pc = "done"
    /\ Len(rectangles) = 3
    /\ \A i \in Indices : Area(Dim(i)) > 0
    /\ \E i, j \in Indices : i # j /\ LocX(i) = LocX(j) /\ LocY(i) # LocY(j)

\* C2: the returned pair is the tight bounding box of the recorded placements,
\* width = max (x_i + width_i) and height = max (y_i + height_i); an empty
\* collection returns (0, 0).
TightBoundingBox ==
    pc = "done" =>
      IF Len(rectangles) = 0 THEN ret = <<0, 0>>
      ELSE ret = <<SetMax({LocX(i) + Dim(i).Width : i \in Indices}),
                   SetMax({LocY(i) + Dim(i).Height : i \in Indices})>>

\* a layout wider and higher than its first rectangle has been returned
TightBoundingBoxWitness ==
    /\ pc = "done"
    /\ Len(rectangles) = 3
    /\ ret[1] > placements[1].width
    /\ ret[2] > placements[1].height

\* C3: for a non-empty collection every recorded x and y is >= 0, and the
\* smallest recorded x and the smallest recorded y are exactly 0.
NormalizedToOrigin ==
    (pc = "done" /\ Len(rectangles) > 0) =>
      /\ \A i \in Indices : LocX(i) >= 0 /\ LocY(i) >= 0
      /\ SetMin({LocX(i) : i \in Indices}) = 0
      /\ SetMin({LocY(i) : i \in Indices}) = 0

\* a layout with two rectangles away from the origin has been recorded
NormalizedToOriginWitness ==
    /\ pc = "done"
    /\ \E i, j \in Indices :
          /\ i # j
          /\ LocX(i) + LocY(i) > 0
          /\ LocX(j) + LocY(j) > 0

\* C4: Place is never called twice for an index nor for an index outside
\* 0..n-1; when Pack has returned it has been called exactly n times, once per
\* index, and the call for index i carries the (shifted) position chosen for
\* the rectangle Rectangle(i).
CallsOf(i) == {k \in 1..Len(calls) : calls[k][1] = i}

PlaceOncePerIndex ==
    /\ \A k \in 1..Len(calls) : calls[k][1] \in Indices
    /\ \A i \in Indices : Cardinality(CallsOf(i)) <= 1
    /\ pc = "done" =>
          /\ Len(calls) = Len(rectangles)
          /\ \A i \in Indices :
                /\ Cardinality(CallsOf(i)) = 1
                /\ \E k \in 1..Len(placements) :
                      /\ placements[k].position = i
                      /\ placements[k].width = Dim(i).Width
                      /\ placements[k].height = Dim(i).Height
                      /\ \A c \in CallsOf(i) :
                            calls[c] = <<i, placements[k].x - final.minX,
                                            placements[k].y - final.minY>>
                      /\ locations[i + 1] = <<placements[k].x - final.minX,
                                              placements[k].y - final.minY>>

\* Pack has returned for a collection the sort has re-ordered
PlaceOncePerIndexWitness ==
    /\ pc = "done"
    /\ Len(rectangles) = 3
    /\ positions # <<0, 1, 2>>
    /\ Dim(0) # Dim(1) /\ Dim(1) # Dim(2) /\ Dim(0) # Dim(2)

\* C5: two runs of Pack on the identical collection record the same (x, y) for
\* every index and return the same pair, whatever the map iteration orders.
Deterministic ==
    (pc = "done" /\ hasPrev /\ rectangles = prevRectangles) =>
      (locations = prevLocations /\ ret = prevRet)

\* C6: re-labelling the indices of the collection changes neither the returned
\* pair nor the multiset of (width, height, x, y) of the recorded layout.
Tuple(p, locs, k) == <<p[k].Width, p[k].Height, locs[k][1], locs[k][2]>>

TupleBag(p, locs) ==
    [t \in {Tuple(p, locs, k) : k \in 1..Len(p)} |->
        Cardinality({k \in 1..Len(p) : Tuple(p, locs, k) = t})]

IndexIndependent ==
    (pc = "done" /\ hasPrev) =>
      /\ ret = prevRet
      /\ TupleBag(rectangles, locations) = TupleBag(prevRectangles, prevLocations)

\* C7: the rectangle placed first has the largest area of the collection and
\* sits at (0, 0), also in what Place recorded; a single rectangle (w, h) is
\* recorded at (0, 0) for index 0 and Pack returns (w, h).
FirstIsLargestAtOrigin ==
    /\ Len(placements) >= 1 =>
          LET first == placements[1] IN
          /\ first.position \in Indices
          /\ Area(Dim(first.position)) = SetMax({Area(Dim(i)) : i \in Indices})
          /\ first.width = Dim(first.position).Width
          /\ first.height = Dim(first.position).Height
          /\ first.x = 0 /\ first.y = 0
          /\ pc = "done" => locations[first.position + 1] = <<0, 0>>
    /\ (pc = "done" /\ Len(rectangles) = 1) =>
          /\ calls = << <<0, 0, 0>> >>
          /\ locations[1] = <<0, 0>>
          /\ ret = <<Dim(0).Width, Dim(0).Height>>

\* Pack has returned for a collection whose largest rectangle is its last
FirstIsLargestAtOriginWitness ==
    /\ pc = "done"
    /\ Len(rectangles) = 3
    /\ Area(Dim(2)) > Area(Dim(0)) /\ Area(Dim(2)) > Area(Dim(1))
    /\ placements[1].position = 2

\* C8: every position chosen after the first is a pair of an x edge and a y
\* edge of the rectangles placed before, overlaps none of them, and among all
\* such free pairs has the smallest resulting bounding-box area and, among
\* those of that area, the smallest squared center distance (integer halves).
Before(k) == {placements[j] : j \in 1..(k - 1)}

XEdges(P) == {p.x : p \in P} \cup {p.x + p.width : p \in P}
YEdges(P) == {p.y : p \in P} \cup {p.y + p.height : p \in P}

Free(P, cx, cy, w, h) ==
    \A p \in P : ~Overlap(cx, cy, w, h, p.x, p.y, p.width, p.height)

BoxMinX(P, cx) == SetMin({p.x : p \in P} \cup {cx})
BoxMinY(P, cy) == SetMin({p.y : p \in P} \cup {cy})
BoxMaxX(P, cx, w) == SetMax({p.x + p.width : p \in P} \cup {cx + w})
BoxMaxY(P, cy, h) == SetMax({p.y + p.height : p \in P} \cup {cy + h})

BoxArea(P, cx, cy, w, h) ==
    (BoxMaxX(P, cx, w) - BoxMinX(P, cx)) * (BoxMaxY(P, cy, h) - BoxMinY(P, cy))

CenterDistance(P, cx, cy, w, h) ==
    LET dx == (cx + (w \div 2))
              - (BoxMinX(P, cx) + ((BoxMaxX(P, cx, w) - BoxMinX(P, cx)) \div 2))
        dy == (cy + (h \div 2))
              - (BoxMinY(P, cy) + ((BoxMaxY(P, cy, h) - BoxMinY(P, cy)) \div 2))
    IN dx * dx + dy * dy

GreedyChoiceAt(k) ==
    LET P == Before(k)
        c == placements[k]
        w == c.width
        h == c.height
    IN /\ c.x \in XEdges(P)
       /\ c.y \in YEdges(P)
       /\ Free(P, c.x, c.y, w, h)
       /\ \A cx \in XEdges(P), cy \in YEdges(P) :
             Free(P, cx, cy, w, h) =>
               \/ BoxArea(P, cx, cy, w, h) > BoxArea(P, c.x, c.y, w, h)
               \/ /\ BoxArea(P, cx, cy, w, h) = BoxArea(P, c.x, c.y, w, h)
                  /\ CenterDistance(P, cx, cy, w, h) >= CenterDistance(P, c.x, c.y, w, h)

GreedyChoice == \A k \in 2..Len(placements) : GreedyChoiceAt(k)

\* a third rectangle has been placed where another free pair gives the same
\* bounding-box area but lies farther from the center
GreedyChoiceWitness ==
    /\ Len(placements) = 3
    /\ LET P == Before(3)
           c == placements[3]
       IN \E cx \in XEdges(P), cy \in YEdges(P) :
             /\ Free(P, cx, cy, c.width, c.height)
             /\ BoxArea(P, cx, cy, c.width, c.height) = BoxArea(P, c.x, c.y, c.width, c.height)
             /\ CenterDistance(P, cx, cy, c.width, c.height)
                  > CenterDistance(P, c.x, c.y, c.width, c.height)

\* C9: no Place call is issued before a position has been chosen for every
\* rectangle; from the first Place call on no position is chosen or changed
\* and no rectangle is read; Pack never changes the caller's rectangles.
WriteBackLast ==
    /\ [](calls # << >> => Len(placements) = Len(rectangles))
    /\ [][calls' # calls => Len(placements) = Len(rectangles)]_vars
    /\ [][(calls # << >> \/ calls' # calls) => (placements' = placements /\ read' = {})]_vars
    /\ [][rectangles' = rectangles]_vars

\* the write-back of a three-rectangle layout is under way
WriteBackLastWitness ==
    /\ pc = "place"
    /\ Len(rectangles) = 3
    /\ Len(calls) = 2

\* C10: at every step after the seed the pair (bounds.maxX, bounds.minY) is
\* among the candidate pairs and intersects no placed rectangle, so that
\* findBestPlacement returns found = true and the fallback is never executed.
CornerIsFree ==
    (pc = "loop" /\ Len(placements) >= 1 /\ next < Len(positions)) =>
      LET b == computeBounds(placements)
          r == Rectangle(rectangles, positions[next + 1])
      IN /\ b.maxX \in SeqRange(xKeys(placements, 1, << >>))
         /\ b.minY \in SeqRange(yKeys(placements, 1, << >>))
         /\ ~hasIntersection(Placement(0, b.maxX, b.minY, r.Width, r.Height), placements)

FallbackNeverTaken ==
    /\ CornerIsFree
    /\ Len(placements) >= 2 => candidateFound
    /\ ~fallback

\* findBestPlacement has been called twice and found a position
FallbackNeverTakenWitness ==
    /\ Len(placements) = 3
    /\ candidateFound
    /\ \A k \in 1..3 : placements[k].width > 0 /\ placements[k].height > 0

====
